---- MODULE Spec2Model ----
(***************************************************************************)
(* Model of package api, request.go: the Request draft (builder),         *)
(* its materialisation into an *http.Request, and the execution pipeline   *)
(* GET / POST -> callAPIWithTimeout -> callAPI with its goroutine, its     *)
(* deadline and GET's retry loop.                                          *)
(***************************************************************************)
EXTENDS Integers, Sequences, FiniteSets, TLC

\* ------------------------------------------------------------------ bounds

\* largest Options.retries an endpoint is configured with
MaxRetries == 2

\* largest Options.retries of the call whose draft is watched for changes
MaxFrameRetries == 1

\* Options objects that may be allocated (the endpoint's own plus one per draft)
MaxOptions == 3

\* builder calls made on one draft, of any kind
MaxCalls == 2

\* query pairs added to one draft
MaxQueries == 3

\* headers added to one draft
MaxHeaders == 3

\* ----------------------------------------------------------- program values

\* http.StatusOK
StatusOK == 200

\* time.Sleep(500 * time.Millisecond) between two attempts of a GET
RetryDelay == 500

\* Options.timeout values, in milliseconds: negative, zero, positive
Timeouts == {-1, 0, 100}

\* status codes a completed round trip may carry
Statuses == {200, 201, 204, 404}

\* response bodies a completed round trip may carry
Bodies == {"", "body"}

Methods == {"GET", "POST"}

\* a nil pointer / a nil error
Nil == [kind |-> "nil"]

\* the package's sentinel error ErrTimeout
ErrTimeout == [kind |-> "ErrTimeout"]

\* an error of the standard library (url.Parse, http.Client.Do, io.ReadAll)
LibError(what) == [kind |-> "LibError", what |-> what]

\* fmt.Errorf("error in %s(): <stage>: %w", method, err)
FmtError(method, stage, err) ==
  [kind |-> "fmtError", method |-> method, stage |-> stage, wrapped |-> err]

\* &PackageError{err}: a non-nil *PackageError whatever err is, nil included
PackageError(err) == [kind |-> "PackageError", err |-> err]

\* newResponse(res.StatusCode, string(body))
newResponse(status, body) == [kind |-> "Response", Status |-> status, Body |-> body]

\* newQueryError(rv, r): the API error for a non-OK response of request r
newQueryError(rv, r) ==
  [kind |-> "QueryError", status |-> rv.Status, body |-> rv.Body, req |-> r]

\* the pair (*Response, error) a call returns
Outcome(r, e) == [r |-> r, e |-> e]

\* ------------------------------------------------------------------ strings
\* A Go string is the sequence of its characters.

LowerCase == <<"a", "b", "c", "d", "e", "f", "g", "h", "i", "j", "k", "l", "m",
               "n", "o", "p", "q", "r", "s", "t", "u", "v", "w", "x", "y", "z">>
UpperCase == <<"A", "B", "C", "D", "E", "F", "G", "H", "I", "J", "K", "L", "M",
               "N", "O", "P", "Q", "R", "S", "T", "U", "V", "W", "X", "Y", "Z">>
DigitChars == <<"0", "1", "2", "3", "4", "5", "6", "7", "8", "9">>

\* the characters of the model in byte order
Ascii ==
  <<" ", "\"", "%", "&", "+", "-", ".">> \o DigitChars \o <<"=", "?">> \o UpperCase
    \o <<"_">> \o LowerCase \o <<"{", "}", "~">>

Range(seq) == {seq[i] : i \in 1..Len(seq)}

Ord(c) == CHOOSE i \in 1..Len(Ascii) : Ascii[i] = c

\* s < t, byte-wise, as sort.Strings orders the keys
StrLess(s, t) ==
  \E i \in 1..(Len(t)) :
    /\ \A j \in 1..(i - 1) : j <= Len(s) /\ s[j] = t[j]
    /\ (i > Len(s) \/ (i <= Len(s) /\ Ord(s[i]) < Ord(t[i])))

RECURSIVE Digits(_)
Digits(n) ==
  IF n < 10 THEN <<DigitChars[n + 1]>>
  ELSE Digits(n \div 10) \o <<DigitChars[(n % 10) + 1]>>

\* strconv.Itoa
Itoa(i) == IF i < 0 THEN <<"-">> \o Digits(-i) ELSE Digits(i)

\* strconv.FormatBool
FormatBool(b) == IF b THEN <<"t", "r", "u", "e">> ELSE <<"f", "a", "l", "s", "e">>

\* valueDataType, lines 32-36
vdtString == 0
vdtInt == 1
vdtBool == 2

\* a valueData of each kind, the other fields at their zero value
StringValue(s) == [is |-> vdtString, s |-> s, i |-> 0, b |-> FALSE]
IntValue(i) == [is |-> vdtInt, s |-> <<>>, i |-> i, b |-> FALSE]
BoolValue(b) == [is |-> vdtBool, s |-> <<>>, i |-> 0, b |-> b]

\* (valueData).string(), lines 45-53
string(v) ==
  IF v.is = vdtString THEN v.s
  ELSE IF v.is = vdtInt THEN Itoa(v.i)
  ELSE IF v.is = vdtBool THEN FormatBool(v.b)
  ELSE <<>>

keyValuePair(k, v) == [key |-> k, value |-> v]

\* ------------------------------------------------------------- net/url

\* the characters url.QueryEscape leaves alone
Unreserved ==
  Range(LowerCase) \cup Range(UpperCase) \cup Range(DigitChars) \cup {"-", "_", ".", "~"}

\* %XX of the other characters of the model
PercentCode(c) ==
  IF c = " " THEN <<"%", "2", "0">>
  ELSE IF c = "\"" THEN <<"%", "2", "2">>
  ELSE IF c = "%" THEN <<"%", "2", "5">>
  ELSE IF c = "&" THEN <<"%", "2", "6">>
  ELSE IF c = "+" THEN <<"%", "2", "B">>
  ELSE IF c = "=" THEN <<"%", "3", "D">>
  ELSE IF c = "?" THEN <<"%", "3", "F">>
  ELSE IF c = "{" THEN <<"%", "7", "B">>
  ELSE <<"%", "7", "D">>

RECURSIVE QueryEscape(_)
\* url.QueryEscape
QueryEscape(str) ==
  IF str = <<>> THEN <<>>
  ELSE (IF Head(str) = " " THEN <<"+">>
        ELSE IF Head(str) \in Unreserved THEN <<Head(str)>>
        ELSE PercentCode(Head(str))) \o QueryEscape(Tail(str))

\* the result of a failed url.QueryUnescape
BadEscape == <<"<bad escape>">>

RECURSIVE QueryUnescape(_)
\* url.QueryUnescape: BadEscape for a % that no two hex digits follow
QueryUnescape(str) ==
  IF str = <<>> THEN <<>>
  ELSE IF Head(str) = "%"
  THEN IF Len(str) >= 3
            /\ \E c \in Range(Ascii) : PercentCode(c) = SubSeq(str, 1, 3)
       THEN LET c == CHOOSE c \in Range(Ascii) : PercentCode(c) = SubSeq(str, 1, 3)
                rest == QueryUnescape(SubSeq(str, 4, Len(str)))
            IN IF rest = BadEscape THEN BadEscape ELSE <<c>> \o rest
       ELSE BadEscape
  ELSE LET rest == QueryUnescape(Tail(str))
       IN IF rest = BadEscape THEN BadEscape
          ELSE <<IF Head(str) = "+" THEN " " ELSE Head(str)>> \o rest

\* the index of the first c in str, 0 if there is none
IndexOf(str, c) ==
  IF c \in Range(str) THEN CHOOSE i \in 1..Len(str) : str[i] = c /\ \A j \in 1..(i - 1) : str[j] # c
  ELSE 0

RECURSIVE SplitOn(_, _)
\* strings.Split(str, c) for a non-empty str; no part for an empty str
SplitOn(str, c) ==
  IF str = <<>> THEN <<>>
  ELSE IF IndexOf(str, c) = 0 THEN <<str>>
  ELSE IF IndexOf(str, c) = Len(str) THEN <<SubSeq(str, 1, Len(str) - 1), <<>>>>
  ELSE <<SubSeq(str, 1, IndexOf(str, c) - 1)>>
         \o SplitOn(SubSeq(str, IndexOf(str, c) + 1, Len(str)), c)

\* one "key=value" part of a query, unescaped
DecodePart(part) ==
  LET eq == IndexOf(part, "=")
      k == IF eq = 0 THEN part ELSE SubSeq(part, 1, eq - 1)
      v == IF eq = 0 THEN <<>> ELSE SubSeq(part, eq + 1, Len(part))
  IN [key |-> QueryUnescape(k), value |-> QueryUnescape(v)]

RECURSIVE DecodeParts(_)
DecodeParts(parts) ==
  IF parts = <<>> THEN <<>>
  ELSE LET kv == DecodePart(Head(parts))
       IN (IF Head(parts) = <<>> \/ kv.key = BadEscape \/ kv.value = BadEscape
           THEN <<>> ELSE <<kv>>) \o DecodeParts(Tail(parts))

\* the key/value pairs of a raw query in the order they stand in it, as
\* url.ParseQuery reads them: empty parts and parts with a bad escape are skipped
QueryPairs(rawQuery) == DecodeParts(SplitOn(rawQuery, "&"))

\* url.Values / http.Header: a map from keys to the list of their values
NoValues == <<>>

\* (url.Values).Add
ValuesAdd(vals, k, v) ==
  [x \in (DOMAIN vals) \cup {k} |->
     IF x = k THEN (IF k \in DOMAIN vals THEN Append(vals[k], v) ELSE <<v>>)
     ELSE vals[x]]

\* (http.Header).Set on a key already canonical, also (url.Values).Set
ValuesSet(vals, k, v) ==
  [x \in (DOMAIN vals) \cup {k} |-> IF x = k THEN <<v>> ELSE vals[x]]

RECURSIVE AddPairs(_, _)
AddPairs(vals, pairs) ==
  IF pairs = <<>> THEN vals
  ELSE AddPairs(ValuesAdd(vals, Head(pairs).key, Head(pairs).value), Tail(pairs))

\* (*url.URL).Query(): url.ParseQuery(u.RawQuery), its error dropped
ParseQuery(rawQuery) == AddPairs(NoValues, QueryPairs(rawQuery))

\* the key sort.Strings puts first
MaxKey(keys) == CHOOSE k \in keys : \A x \in keys \ {k} : StrLess(x, k)
MinKey(keys) == CHOOSE k \in keys : \A x \in keys \ {k} : StrLess(k, x)

RECURSIVE EncodeValues(_, _)
\* the "key=value" entries of one key, in the order of its values
EncodeValues(escapedKey, values) ==
  IF values = <<>> THEN <<>>
  ELSE LET first == escapedKey \o <<"=">> \o QueryEscape(Head(values))
           rest == EncodeValues(escapedKey, Tail(values))
       IN IF rest = <<>> THEN first ELSE first \o <<"&">> \o rest

RECURSIVE EncodeKeys(_, _)
\* the entries of the keys, in sorted order of the keys
EncodeKeys(vals, keys) ==
  IF keys = {} THEN <<>>
  ELSE LET k == MinKey(keys)
           first == EncodeValues(QueryEscape(k), vals[k])
           rest == EncodeKeys(vals, keys \ {k})
       IN IF first = <<>> THEN rest
          ELSE IF rest = <<>> THEN first
          ELSE first \o <<"&">> \o rest

\* (url.Values).Encode: the keys sorted, each key's values in their order
Encode(vals) == EncodeKeys(vals, DOMAIN vals)

\* (*url.URL).String() of a URL made of a path and a raw query
URLString(path, rawQuery) ==
  IF rawQuery = <<>> THEN path ELSE path \o <<"?">> \o rawQuery

\* ------------------------------------------------------------ net/http

ToUpper(c) == IF c \in Range(LowerCase) THEN UpperCase[CHOOSE i \in 1..26 : LowerCase[i] = c] ELSE c
ToLower(c) == IF c \in Range(UpperCase) THEN LowerCase[CHOOSE i \in 1..26 : UpperCase[i] = c] ELSE c

\* the characters a header field name may hold (of the model's characters)
TokenChars ==
  Range(LowerCase) \cup Range(UpperCase) \cup Range(DigitChars)
    \cup {"%", "&", "+", "-", ".", "_", "~"}

\* textproto.CanonicalMIMEHeaderKey: a valid name gets an upper-case letter first
\* and after each "-", lower-case letters elsewhere; an invalid one is kept
CanonicalMIMEHeaderKey(k) ==
  IF \E i \in 1..Len(k) : k[i] \notin TokenChars THEN k
  ELSE [i \in 1..Len(k) |->
          IF i = 1 \/ k[i - 1] = "-" THEN ToUpper(k[i]) ELSE ToLower(k[i])]

\* (http.Header).Set
HeaderAdd(h, k, v) == ValuesAdd(h, CanonicalMIMEHeaderKey(k), v)
HeaderSet(h, k, v) == ValuesSet(h, CanonicalMIMEHeaderKey(k), v)

VARIABLES
  heap,      \* the Options objects, by address: heap[1] is *e.parent.Options
  reqs,      \* the Requests made by NewRequest, each holding its Options address
  epURL,     \* what r.endPoint.URL() yields: does it parse, its path, its raw query
  nCalls,    \* builder calls made so far
  sent,      \* what RawQueryURL / callAPI last made of the draft as it stands
  pc,        \* the caller: "idle", "call", "select", "sleep", "done"
  cur,       \* the request GET / POST was called on
  method,    \* the method of the running call
  retry,     \* GET's loop variable; 0 while the first attempt (line 159) runs
  res, err,  \* GET's outer res, err (line 159)
  ret,       \* what GET / POST returned
  attempts,  \* history: one record per finished call of callAPIWithTimeout
  tasks,     \* the goroutines started by callAPIWithTimeout, oldest first
  returned,  \* the last builder call and the value it returned
  now,       \* ms the caller has spent in time.Sleep and in expired deadlines
  events     \* history: the calls of callAPIWithTimeout and their returns, timed

vars == <<heap, reqs, epURL, nCalls, sent, pc, cur, method, retry, res, err, ret, attempts, tasks,
          returned, now, events>>

draftVars == <<heap, reqs, epURL, nCalls, sent, returned>>
callVars == <<pc, cur, method, retry, res, err, ret, attempts, tasks, now, events>>

\* ------------------------------------------------------------------ options

\* r.Options.timeout and r.Options.retries, read through the draft's pointer
OptTimeout(r) == heap[reqs[r].Options].timeout
OptRetries(r) == heap[reqs[r].Options].retries

\* the Request literal of NewRequest: every field but Options is its zero value
NewRequestValue(optAddr) ==
  [queries |-> <<>>, headers |-> <<>>, bodyKV |-> <<>>, bodyTXT |-> <<>>,
   hasBody |-> FALSE, Options |-> optAddr]

\* ---------------------------------------------------------- materialisation

\* the URL of a well-formed endpoint
EndpointPath == <<"https://api.example.com/v1/items">>

\* raw queries the endpoint URL itself may carry
BaseQueries == {<<>>, <<"a", "=", "0">>}

GoodURL(rawQuery) == [ok |-> TRUE, path |-> EndpointPath, rawQuery |-> rawQuery]
BadURL == [ok |-> FALSE, path |-> <<>>, rawQuery |-> <<>>]

RECURSIVE Serialized(_)
\* the key and value.string() of each pair, as the loops of lines 150, 254, 267 read them
Serialized(pairs) ==
  IF pairs = <<>> THEN <<>>
  ELSE <<[key |-> Head(pairs).key, value |-> string(Head(pairs).value)]>>
         \o Serialized(Tail(pairs))

\* lines 149-153 and 266-270: the URL's own query plus the draft's, encoded
RawQueryOf(req, rawQuery) ==
  Encode(AddPairs(ParseQuery(rawQuery), Serialized(req.queries)))

\* (*Request).RawQueryURL, lines 142-155
RawQueryURLResult(req) ==
  IF ~epURL.ok THEN [url |-> <<>>, err |-> PackageError(LibError("url"))]
  ELSE [url |-> URLString(epURL.path, RawQueryOf(req, epURL.rawQuery)), err |-> Nil]

\* the body argument of http.NewRequest, lines 247-262
NoBody == [kind |-> "nil"]
Reader(text) == [kind |-> "strings.Reader", text |-> text]
NilReader == [kind |-> "nil *strings.Reader"]

BodyOfFieldsFirst(req) ==
  IF req.hasBody
  THEN IF Len(req.bodyKV) > 0
       THEN Reader(Encode(AddPairs(NoValues, Serialized(req.bodyKV))))
       ELSE IF Len(req.bodyTXT) > 0 THEN Reader(req.bodyTXT)
       ELSE NilReader
  ELSE NoBody

BodyOf(req) ==
  IF req.hasBody
  THEN IF Len(req.bodyTXT) > 0 THEN Reader(req.bodyTXT)
       ELSE IF Len(req.bodyKV) > 0
       THEN Reader(Encode(AddPairs(NoValues, Serialized(req.bodyKV))))
       ELSE NilReader
  ELSE NoBody

\* (*Request).genHTTPReq, lines 246-263; http.NewRequest fails on a URL that does
\* not parse and panics on a nil *strings.Reader (it calls its Len)
genHTTPReq(req, m) ==
  IF ~epURL.ok THEN [req |-> Nil, err |-> LibError("url")]
  ELSE IF BodyOf(req) = NilReader THEN [req |-> Nil, err |-> [kind |-> "panic"]]
  ELSE [req |-> [Method |-> m, path |-> epURL.path, RawQuery |-> epURL.rawQuery,
                 Header |-> NoValues, Body |-> BodyOf(req)],
        err |-> Nil]

RECURSIVE SetHeaders(_, _)
\* lines 272-274
SetHeaders(h, headers) ==
  IF headers = <<>> THEN h
  ELSE SetHeaders(HeaderSet(h, Head(headers).key, string(Head(headers).value)),
                  Tail(headers))

\* (*Request).populateHTTPRequest, lines 265-275
populateHTTPRequest(req, httpReq) ==
  [httpReq EXCEPT !.RawQuery = RawQueryOf(req, httpReq.RawQuery),
                  !.Header = SetHeaders(httpReq.Header, req.headers)]

\* callAPI, lines 219-226: the request handed to httpClient.Do
HTTPRequestOf(req, m) ==
  IF genHTTPReq(req, m).err # Nil THEN genHTTPReq(req, m)
  ELSE [req |-> populateHTTPRequest(req, genHTTPReq(req, m).req), err |-> Nil]

\* nothing was made of the draft as it stands
NothingSent == [op |-> "none"]

\* Go values handed to SetBodyJSON: a string, an empty map, a channel
GoValues == {[type |-> "string", s |-> <<>>], [type |-> "map"], [type |-> "chan"]}

\* json.Marshal: a channel is an unsupported type
jsonMarshal(v) ==
  IF v.type = "chan" THEN [text |-> <<>>, err |-> LibError("json: unsupported type")]
  ELSE IF v.type = "map" THEN [text |-> <<"{", "}">>, err |-> Nil]
  ELSE [text |-> <<"\"">> \o v.s \o <<"\"">>, err |-> Nil]

\* ----------------------------------------------------------------- callAPI

\* lines 238-243: the Response, with a QueryError unless its status is StatusOK
CompletedLenient(rv, r) ==
  IF rv.Status >= 300 THEN Outcome(rv, newQueryError(rv, r)) ELSE Outcome(rv, Nil)
Completed(rv, r) ==
  IF rv.Status # StatusOK THEN Outcome(rv, newQueryError(rv, r)) ELSE Outcome(rv, Nil)

\* what the transport does with one request: http.Client.Do fails, io.ReadAll
\* fails, or the round trip completes with a status and a body
Transport ==
  {[kind |-> "doError"], [kind |-> "readError"]}
    \cup {[kind |-> "completed", status |-> s, body |-> b] : s \in Statuses, b \in Bodies}

\* no request reaches the transport: genHTTPReq failed
NotSent == [kind |-> "notSent"]

\* the transport behaviours callAPI may meet
RoundTrips(r, m) == IF genHTTPReq(reqs[r], m).err = Nil THEN Transport ELSE {NotSent}

\* callAPI(method) of request r, lines 218-244, when the transport does rt
callAPI(r, m, rt) ==
  IF genHTTPReq(reqs[r], m).err # Nil
  THEN Outcome(Nil, PackageError(FmtError(m, "creating *http.Request", LibError("url"))))
  ELSE IF rt.kind = "doError"
  THEN Outcome(Nil, PackageError(FmtError(m, "communicating with api", LibError("net"))))
  ELSE IF rt.kind = "readError"
  THEN Outcome(Nil, PackageError(FmtError(m, "reading body of response", LibError("read"))))
  ELSE Completed(newResponse(rt.status, rt.body), r)

\* ------------------------------------------------------------- GET and POST

Return(out) == pc' = "done" /\ ret' = out

\* lines 160 and 167: err == nil
ErrIsNilOrTimeout(e) == e = Nil \/ e = ErrTimeout
ErrIsNil(e) == e = Nil

\* line 164: retry <= r.Options.retries
LoopRunsOnceMore(n) == n <= OptRetries(cur) + 1
LoopRuns(n) == n <= OptRetries(cur)

\* lines 164-165: the loop body is entered with retry = n and starts with time.Sleep
RetriesAtOnce(n) == pc' = "call" /\ retry' = n /\ ret' = ret
Retries(n) == pc' = "sleep" /\ retry' = n /\ ret' = ret

\* GET, lines 159-171, from the point where callAPIWithTimeout returned out
GETReturn(out) ==
  IF retry = 0
  THEN /\ res' = out.r
       /\ err' = out.e
       /\ IF ErrIsNil(out.e)
          THEN Return(out) /\ retry' = retry
          ELSE IF OptRetries(cur) > 0 /\ LoopRuns(1)
               THEN Retries(1)
               ELSE Return(out) /\ retry' = retry
  ELSE \* line 166 declares its own res, err: the outer pair keeps the first outcome
       /\ UNCHANGED <<res, err>>
       /\ IF ErrIsNil(out.e)
          THEN Return(out) /\ retry' = retry
          ELSE IF LoopRuns(retry + 1)
               THEN Retries(retry + 1)
               ELSE Return(Outcome(res, err)) /\ retry' = retry

POSTReturnRetrying(out) == GETReturn(out)

\* POST, line 176: whatever callAPIWithTimeout returned
POSTReturn(out) == Return(out) /\ UNCHANGED <<retry, res, err>>

AfterCall(out) == IF method = "GET" THEN GETReturn(out) ELSE POSTReturn(out)

\* one finished call of callAPIWithTimeout, for the history: what the transport
\* did, what the call returned, and the request the caller itself made of the draft
Attempt(rt, out, httpReq) ==
  [rt |-> rt, out |-> out, method |-> method, timeout |-> OptTimeout(cur),
   retries |-> OptRetries(cur), httpReq |-> httpReq]

\* the caller did not learn what the transport did
Unknown == [kind |-> "unknown"]

NotReturned == [kind |-> "none"]

\* no builder call was made yet
NotCalled == [op |-> "none"]

\* a call of callAPIWithTimeout, or its return, at the caller's time t
Event(ev, t) == [ev |-> ev, at |-> t]

\* callAPI, genHTTPReq and populateHTTPRequest (lines 218-275) and RawQueryURL
\* (lines 142-155) read the fields of *r and assign none of them
DraftConsumed(req) == [req EXCEPT !.queries = <<>>]
DraftRead(req) == req

\* a draft as AddQuery, AddQueryInt, AddHeader and SetBodyJSON leave it: two
\* query pairs, a header and a JSON body
BuiltDraft ==
  [NewRequestValue(2) EXCEPT
     !.queries = <<keyValuePair(<<"b">>, StringValue(<<"x", " ", "&">>)),
                   keyValuePair(<<"a">>, IntValue(10))>>,
     !.headers = <<keyValuePair(<<"x", "-", "a">>, StringValue(<<"1">>))>>,
     !.bodyTXT = <<"{", "}">>,
     !.hasBody = TRUE]

Init ==
  /\ \E t \in Timeouts, n \in 0..MaxRetries :
       heap = <<[timeout |-> t, retries |-> n], [timeout |-> t, retries |-> n]>>
  /\ reqs = <<NewRequestValue(2)>>
  /\ epURL \in {GoodURL(<<>>), BadURL}
  /\ nCalls = 0
  /\ sent = NothingSent
  /\ pc = "idle"
  /\ cur = 0
  /\ method = ""
  /\ retry = 0
  /\ res = Nil
  /\ err = Nil
  /\ ret = NotReturned
  /\ attempts = <<>>
  /\ tasks = <<>>
  /\ returned = NotCalled
  /\ now = 0
  /\ events = <<>>

\* r.GET()
GET(r) ==
  /\ pc = "idle"
  /\ pc' = "call"
  /\ cur' = r
  /\ method' = "GET"
  /\ UNCHANGED <<draftVars, retry, res, err, ret, attempts, tasks, now, events>>

\* r.POST()
POST(r) ==
  /\ pc = "idle"
  /\ pc' = "call"
  /\ cur' = r
  /\ method' = "POST"
  /\ UNCHANGED <<draftVars, retry, res, err, ret, attempts, tasks, now, events>>

\* the guard of line 187
RunsSyncStrict(r) == OptTimeout(r) < 0
RunsSync(r) == OptTimeout(r) <= 0

\* callAPIWithTimeout, lines 187-189: no timeout, the call runs on the caller
CallSync ==
  /\ pc = "call"
  /\ RunsSync(cur)
  /\ \E rt \in RoundTrips(cur, method) :
       /\ attempts' = Append(attempts, Attempt(rt, callAPI(cur, method, rt),
                                                HTTPRequestOf(reqs[cur], method)))
       /\ AfterCall(callAPI(cur, method, rt))
  /\ reqs' = [reqs EXCEPT ![cur] = DraftRead(@)]
  /\ events' = events \o <<Event("call", now), Event("return", now)>>
  /\ UNCHANGED <<heap, epURL, nCalls, sent, returned, cur, method, tasks, now>>

\* callAPIWithTimeout, lines 191-203: the deadline is set, the goroutine started
CallSpawn ==
  /\ pc = "call"
  /\ ~RunsSync(cur)
  /\ tasks' = Append(tasks, [st |-> "running", req |-> cur, method |-> method, rt |-> Unknown,
                             val |-> Unknown, httpReq |-> Unknown])
  /\ pc' = "select"
  /\ events' = Append(events, Event("call", now))
  /\ UNCHANGED <<draftVars, cur, method, retry, res, err, ret, attempts, now>>

\* the goroutine, line 198: its callAPI returns and it blocks sending on ch
TaskCallReturns(t) ==
  /\ tasks[t].st = "running"
  /\ \E rt \in RoundTrips(tasks[t].req, tasks[t].method) :
       tasks' = [tasks EXCEPT ![t] = [@ EXCEPT !.st = "sending", !.rt = rt,
                                        !.val = callAPI(tasks[t].req, tasks[t].method, rt),
                                        !.httpReq = HTTPRequestOf(reqs[tasks[t].req],
                                                                  tasks[t].method)]]
  /\ reqs' = [reqs EXCEPT ![tasks[t].req] = DraftRead(@)]
  /\ UNCHANGED <<heap, epURL, nCalls, sent, returned, pc, cur, method, retry, res, err, ret,
                 attempts, now, events>>

\* line 211: what the caller returns for the value received from ch
Received(v) == Outcome(v.r, PackageError(v.e))

\* line 209: what the caller returns when ctx.Done() is chosen
TimedOutWithResponse == Outcome(newResponse(0, ""), ErrTimeout)
TimedOut == Outcome(Nil, ErrTimeout)

\* select, line 210: the goroutine of this attempt hands over its value
SelectReceive ==
  /\ pc = "select"
  /\ tasks[Len(tasks)].st = "sending"
  /\ LET v == tasks[Len(tasks)].val IN
       /\ tasks' = [tasks EXCEPT ![Len(tasks)] = [@ EXCEPT !.st = "done"]]
       /\ attempts' = Append(attempts, Attempt(tasks[Len(tasks)].rt, Received(v), Unknown))
       /\ AfterCall(Received(v))
  /\ events' = Append(events, Event("return", now))
  /\ UNCHANGED <<draftVars, cur, method, now>>

\* select, line 208: the deadline fires, timeout ms after line 192 set it; the
\* goroutine is left as it is
SelectDeadline ==
  /\ pc = "select"
  /\ attempts' = Append(attempts, Attempt(Unknown, TimedOut, Unknown))
  /\ AfterCall(TimedOut)
  /\ now' = now + OptTimeout(cur)
  /\ events' = Append(events, Event("return", now'))
  /\ UNCHANGED <<draftVars, cur, method, tasks>>

\* line 165: time.Sleep returns and the next attempt is called
Sleep ==
  /\ pc = "sleep"
  /\ pc' = "call"
  /\ now' = now + RetryDelay
  /\ UNCHANGED <<draftVars, cur, method, retry, res, err, ret, attempts, tasks, events>>

Next ==
  \/ \E r \in 1..Len(reqs) : GET(r)
  \/ \E r \in 1..Len(reqs) : POST(r)
  \/ CallSync
  \/ CallSpawn
  \/ \E t \in 1..Len(tasks) : TaskCallReturns(t)
  \/ SelectReceive
  \/ SelectDeadline
  \/ Sleep

Spec == Init /\ [][Next]_vars

\* a call on a draft that was built, whose URL the caller asks for afterwards
InitFrame ==
  /\ \E t \in Timeouts, n \in 0..MaxFrameRetries :
       heap = <<[timeout |-> t, retries |-> n], [timeout |-> t, retries |-> n]>>
  /\ reqs = <<BuiltDraft>>
  /\ epURL = GoodURL(<<"a", "=", "0">>)
  /\ nCalls = 0
  /\ sent = NothingSent
  /\ pc = "idle"
  /\ cur = 0
  /\ method = ""
  /\ retry = 0
  /\ res = Nil
  /\ err = Nil
  /\ ret = NotReturned
  /\ attempts = <<>>
  /\ tasks = <<>>
  /\ returned = NotCalled
  /\ now = 0
  /\ events = <<>>

\* r.RawQueryURL(), called once GET / POST has returned, its goroutines still
\* in flight or not
CallerRawQueryURL(r) ==
  /\ pc = "done"
  /\ sent' = [op |-> "RawQueryURL", r |-> r, result |-> RawQueryURLResult(reqs[r])]
  /\ sent' # sent
  /\ reqs' = [reqs EXCEPT ![r] = DraftRead(@)]
  /\ UNCHANGED <<heap, epURL, nCalls, returned, callVars>>

NextFrame ==
  \/ \E r \in 1..Len(reqs) : GET(r)
  \/ \E r \in 1..Len(reqs) : POST(r)
  \/ CallSync
  \/ CallSpawn
  \/ \E t \in 1..Len(tasks) : TaskCallReturns(t)
  \/ SelectReceive
  \/ SelectDeadline
  \/ Sleep
  \/ \E r \in 1..Len(reqs) : CallerRawQueryURL(r)

SpecFrame == InitFrame /\ [][NextFrame]_vars

\* ------------------------------------------------------------------ builder

QueryKeys == {<<"a">>, <<"b">>}
StrValues == {<<"x", " ", "&">>}
IntValues == {-1, 10}
BoolValues == BOOLEAN
HeaderKeys == {<<"x", "-", "a">>, <<"X", "-", "A">>}
HeaderValues == {<<"1">>, <<"2">>}
BodyKeys == {<<"k">>, <<"j">>}
BodyValues == {<<"1">>, <<"=">>}

ContentType == <<"C", "o", "n", "t", "e", "n", "t", "-", "T", "y", "p", "e">>
FormURLEncoded == <<"application/x-www-form-urlencoded">>

\* the *Request a builder call returns: the draft it was called on
RequestPtr(r) == [kind |-> "*Request", r |-> r]

\* a builder call op on draft r that leaves it as req and returns value
Built(r, req, op, value) ==
  /\ nCalls' = nCalls + 1
  /\ reqs' = [reqs EXCEPT ![r] = req]
  /\ sent' = NothingSent
  /\ returned' = [op |-> op, value |-> value]
  /\ UNCHANGED <<heap, epURL, callVars>>

\* lines 75, 85, 95
AppendQuery(req, key, value) ==
  [req EXCEPT !.queries = Append(@, keyValuePair(key, value))]

\* lines 100-107
AppendHeader(req, key, value) ==
  [req EXCEPT !.headers = Append(@, keyValuePair(key, StringValue(value)))]

\* r.AddQuery(key, value)
AddQuery(r, key, value) ==
  Built(r, AppendQuery(reqs[r], key, StringValue(value)), "AddQuery", RequestPtr(r))

\* r.AddQueryBool(key, value)
AddQueryBool(r, key, value) ==
  Built(r, AppendQuery(reqs[r], key, BoolValue(value)), "AddQueryBool", RequestPtr(r))

\* r.AddQueryInt(key, value)
AddQueryInt(r, key, value) ==
  Built(r, AppendQuery(reqs[r], key, IntValue(value)), "AddQueryInt", RequestPtr(r))

\* r.AddHeader(key, value)
AddHeader(r, key, value) ==
  Built(r, AppendHeader(reqs[r], key, value), "AddHeader", RequestPtr(r))

\* FormEncoded has no result
NoValue == [kind |-> "void"]

\* r.FormEncoded()
FormEncoded(r) ==
  Built(r, AppendHeader(reqs[r], ContentType, FormURLEncoded), "FormEncoded", NoValue)

\* r.AddBodyKV(key, value)
AddBodyKV(r, key, value) ==
  Built(r, [reqs[r] EXCEPT !.bodyKV = Append(@, keyValuePair(key, StringValue(value))),
                           !.hasBody = TRUE],
        "AddBodyKV", RequestPtr(r))

\* lines 129-136: the draft after SetBodyJSON(v)
WithJSONBodyFlagged(req, v) ==
  IF jsonMarshal(v).err # Nil THEN [req EXCEPT !.hasBody = TRUE]
  ELSE [req EXCEPT !.bodyTXT = jsonMarshal(v).text, !.hasBody = TRUE]
WithJSONBody(req, v) ==
  IF jsonMarshal(v).err # Nil THEN req
  ELSE [req EXCEPT !.bodyTXT = jsonMarshal(v).text, !.hasBody = TRUE]

\* lines 130-132 and 136: SetBodyJSON returns nil when json.Marshal fails, r otherwise
SetBodyJSONValue(r, v) == IF jsonMarshal(v).err # Nil THEN Nil ELSE RequestPtr(r)

\* r.SetBodyJSON(v)
SetBodyJSON(r, v) ==
  /\ nCalls' = nCalls + 1
  /\ reqs' = [reqs EXCEPT ![r] = WithJSONBody(@, v)]
  /\ sent' = NothingSent
  /\ returned' = [op |-> "SetBodyJSON", arg |-> v, value |-> SetBodyJSONValue(r, v)]
  /\ UNCHANGED <<heap, epURL, callVars>>

\* r.RawQueryURL()
RawQueryURL(r) ==
  /\ sent' = [op |-> "RawQueryURL", r |-> r, result |-> RawQueryURLResult(reqs[r])]
  /\ sent' # sent
  /\ reqs' = [reqs EXCEPT ![r] = DraftRead(@)]
  /\ UNCHANGED <<heap, epURL, nCalls, returned, callVars>>

\* callAPI(m) of draft r up to line 226
MakeHTTPRequest(r, m) ==
  /\ sent' = [op |-> "callAPI", r |-> r, result |-> HTTPRequestOf(reqs[r], m)]
  /\ sent' # sent
  /\ reqs' = [reqs EXCEPT ![r] = DraftRead(@)]
  /\ UNCHANGED <<heap, epURL, nCalls, returned, callVars>>

InitBuild ==
  /\ heap = <<[timeout |-> 0, retries |-> 0], [timeout |-> 0, retries |-> 0]>>
  /\ reqs = <<NewRequestValue(2)>>
  /\ epURL \in {GoodURL(q) : q \in BaseQueries} \cup {BadURL}
  /\ nCalls = 0
  /\ sent = NothingSent
  /\ pc = "idle"
  /\ cur = 0
  /\ method = ""
  /\ retry = 0
  /\ res = Nil
  /\ err = Nil
  /\ ret = NotReturned
  /\ attempts = <<>>
  /\ tasks = <<>>
  /\ returned = NotCalled
  /\ now = 0
  /\ events = <<>>

NextBuild ==
  \/ \E r \in 1..Len(reqs), k \in QueryKeys, v \in StrValues :
       nCalls < MaxCalls /\ AddQuery(r, k, v)
  \/ \E r \in 1..Len(reqs), k \in QueryKeys, v \in BoolValues :
       nCalls < MaxCalls /\ AddQueryBool(r, k, v)
  \/ \E r \in 1..Len(reqs), k \in QueryKeys, v \in IntValues :
       nCalls < MaxCalls /\ AddQueryInt(r, k, v)
  \/ \E r \in 1..Len(reqs), k \in HeaderKeys, v \in HeaderValues :
       nCalls < MaxCalls /\ AddHeader(r, k, v)
  \/ \E r \in 1..Len(reqs) : nCalls < MaxCalls /\ FormEncoded(r)
  \/ \E r \in 1..Len(reqs), k \in BodyKeys, v \in BodyValues :
       nCalls < MaxCalls /\ AddBodyKV(r, k, v)
  \/ \E r \in 1..Len(reqs), v \in GoValues : nCalls < MaxCalls /\ SetBodyJSON(r, v)
  \/ \E r \in 1..Len(reqs) : RawQueryURL(r)
  \/ \E r \in 1..Len(reqs), m \in Methods : MakeHTTPRequest(r, m)

NextQuery ==
  \/ \E r \in 1..Len(reqs), k \in QueryKeys, v \in StrValues :
       nCalls < MaxQueries /\ AddQuery(r, k, v)
  \/ \E r \in 1..Len(reqs), k \in QueryKeys, v \in BoolValues :
       nCalls < MaxQueries /\ AddQueryBool(r, k, v)
  \/ \E r \in 1..Len(reqs), k \in QueryKeys, v \in IntValues :
       nCalls < MaxQueries /\ AddQueryInt(r, k, v)
  \/ \E r \in 1..Len(reqs) : RawQueryURL(r)
  \/ \E r \in 1..Len(reqs), m \in Methods : MakeHTTPRequest(r, m)

NextHeader ==
  \/ \E r \in 1..Len(reqs), k \in HeaderKeys, v \in HeaderValues :
       nCalls < MaxHeaders /\ AddHeader(r, k, v)
  \/ \E r \in 1..Len(reqs) : nCalls < MaxHeaders /\ FormEncoded(r)
  \/ \E r \in 1..Len(reqs), m \in Methods : MakeHTTPRequest(r, m)

\* a draft built with calls of every kind
SpecBuild == InitBuild /\ [][NextBuild]_vars

\* a draft given query pairs only
SpecQuery == InitBuild /\ [][NextQuery]_vars

\* a draft given headers only
SpecHeader == InitBuild /\ [][NextHeader]_vars

\* ------------------------------------------------------------------ options

\* Options: &opt, opt := *e.parent.Options (lines 62, 65): a new object holding
\* a copy of the endpoint's
ShareOptions(h) == [heap |-> h, addr |-> 1]
CopyOptions(h) == [heap |-> Append(h, h[1]), addr |-> Len(h) + 1]

\* e.NewRequest()
NewRequest ==
  /\ Len(reqs) < MaxOptions - 1
  /\ heap' = CopyOptions(heap).heap
  /\ reqs' = Append(reqs, NewRequestValue(CopyOptions(heap).addr))
  /\ UNCHANGED <<epURL, nCalls, sent, returned, callVars>>

\* the Options pointers a caller holds: the endpoint-wide one and each draft's
OptionsPointers == {1} \cup {reqs[r].Options : r \in 1..Len(reqs)}

\* a write of the timeout of the Options object at address a
SetTimeout(a, t) ==
  /\ heap[a].timeout # t
  /\ heap' = [heap EXCEPT ![a].timeout = t]
  /\ UNCHANGED <<reqs, epURL, nCalls, sent, returned, callVars>>

\* a write of the retries of the Options object at address a
SetRetries(a, n) ==
  /\ heap[a].retries # n
  /\ heap' = [heap EXCEPT ![a].retries = n]
  /\ UNCHANGED <<reqs, epURL, nCalls, sent, returned, callVars>>

InitOptions ==
  /\ \E t \in Timeouts, n \in 0..MaxRetries : heap = <<[timeout |-> t, retries |-> n]>>
  /\ reqs = <<>>
  /\ epURL = GoodURL(<<>>)
  /\ nCalls = 0
  /\ sent = NothingSent
  /\ pc = "idle"
  /\ cur = 0
  /\ method = ""
  /\ retry = 0
  /\ res = Nil
  /\ err = Nil
  /\ ret = NotReturned
  /\ attempts = <<>>
  /\ tasks = <<>>
  /\ returned = NotCalled
  /\ now = 0
  /\ events = <<>>

NextOptions ==
  \/ NewRequest
  \/ \E a \in OptionsPointers, t \in Timeouts : SetTimeout(a, t)
  \/ \E a \in OptionsPointers, n \in 0..MaxRetries : SetRetries(a, n)

SpecOptions == InitOptions /\ [][NextOptions]_vars

\* ---------------------------------------------------------------- claims

\* attempt i's round trip completed with status s
CompletedWith(i, s) ==
  attempts[i].rt.kind = "completed" /\ attempts[i].rt.status = s

\* attempt i's round trip failed in the transport
TransportFailed(i) == attempts[i].rt.kind \in {"doError", "readError"}

\* the Response made of what attempt i's round trip carried
ResponseOf(i) == newResponse(attempts[i].rt.status, attempts[i].rt.body)

\* C1: a GET whose first k attempts fail with a transport error and whose
\* attempt k+1 completes with status 200 returns that Response with no error
\* and makes no further attempt, for every timeout setting.
C1_FirstSuccessEndsGET ==
  \A k \in 1..Len(attempts) :
    (/\ attempts[k].method = "GET"
     /\ \A j \in 1..(k - 1) : TransportFailed(j)
     /\ CompletedWith(k, StatusOK))
    => /\ pc = "done"
       /\ ret = Outcome(ResponseOf(k), Nil)
       /\ Len(attempts) = k

\* C2: an attempt whose round trip completes with status 200 returns the
\* Response with a nil error, and so does a call that ends with that attempt.
C2_OKReturnsNilError ==
  \A i \in 1..Len(attempts) :
    CompletedWith(i, StatusOK)
    => /\ attempts[i].out = Outcome(ResponseOf(i), Nil)
       /\ (pc = "done" /\ i = Len(attempts)) => ret = Outcome(ResponseOf(i), Nil)

\* C3: a POST performs exactly one attempt whatever retries is and whatever
\* the attempt's outcome, never sleeps, and returns that attempt's outcome.
C3_PostSingleAttempt ==
  method = "POST"
  => /\ Len(attempts) <= 1
     /\ Len(tasks) <= 1
     /\ pc # "sleep"
     /\ pc \in {"call", "select"} => Len(attempts) = 0
     /\ pc = "done" => (Len(attempts) = 1 /\ ret = attempts[1].out)

\* a POST with retries > 0 has returned a failure
C3_Witness ==
  /\ method = "POST"
  /\ pc = "done"
  /\ OptRetries(cur) = MaxRetries
  /\ Len(attempts) = 1
  /\ TransportFailed(1)
  /\ ret.r = Nil

\* C4: when the caller leaves the select without having received the
\* goroutine's value (the deadline fired first), timeout is > 0, the attempt
\* returns (nil, ErrTimeout), a POST returns just that, and the goroutine is
\* left as it was: the caller does not wait for it.
C4_DeadlineReturnsTimeout ==
  [][(pc = "select" /\ pc' # "select" /\ tasks'[Len(tasks)].st # "done")
       => /\ OptTimeout(cur) > 0
          /\ Len(attempts') = Len(attempts) + 1
          /\ attempts'[Len(attempts')].out = Outcome(Nil, ErrTimeout)
          /\ method = "POST" => (pc' = "done" /\ ret' = Outcome(Nil, ErrTimeout))
          /\ tasks' = tasks]_vars

\* the call returned a timeout while its goroutine is still inside callAPI
C4_Witness ==
  /\ pc = "done"
  /\ Len(attempts) = 1
  /\ attempts[1].out = Outcome(Nil, ErrTimeout)
  /\ ret = Outcome(Nil, ErrTimeout)
  /\ tasks[1].st = "running"

C6_ExhaustedReturnsLast ==
  (/\ pc = "done"
   /\ method = "GET"
   /\ OptRetries(cur) > 0
   /\ Len(attempts) = OptRetries(cur) + 1
   /\ \A i \in 1..Len(attempts) : attempts[i].out.e # Nil)
  => ret = attempts[Len(attempts)].out

\* C7 as stated: an attempt whose round trip completes with a status other than
\* 200 returns the Response and, as its error, the API error of that Response.
C7_NonOKReturnsAPIError ==
  \A i \in 1..Len(attempts) :
    (attempts[i].rt.kind = "completed" /\ attempts[i].rt.status # StatusOK)
    => attempts[i].out = Outcome(ResponseOf(i),
                                 [kind |-> "QueryError", status |-> attempts[i].rt.status,
                                  body |-> attempts[i].rt.body, req |-> cur])

\* C7 amended: such an attempt returns the Response and an error that carries
\* the status, the body and the request: the API error itself when timeout <= 0,
\* a PackageError holding that API error when timeout > 0.
C7_NonOKCarriesAPIError ==
  \A i \in 1..Len(attempts) :
    (attempts[i].rt.kind = "completed" /\ attempts[i].rt.status # StatusOK)
    => LET apiErr == [kind |-> "QueryError", status |-> attempts[i].rt.status,
                      body |-> attempts[i].rt.body, req |-> cur]
       IN /\ attempts[i].out.r = ResponseOf(i)
          /\ attempts[i].out.e =
               IF attempts[i].timeout <= 0 THEN apiErr
               ELSE [kind |-> "PackageError", err |-> apiErr]
          /\ (method = "POST" /\ pc = "done") => ret = attempts[i].out

\* a GET under a timeout received a 204 with a body and has returned
C7_Witness ==
  \E i \in 1..Len(attempts) :
    /\ attempts[i].rt.kind = "completed"
    /\ attempts[i].rt.status = 204
    /\ attempts[i].rt.body = "body"
    /\ attempts[i].timeout > 0
    /\ attempts[i].method = "GET"
    /\ pc = "done"

\* C8: a draft holds its own copy of the endpoint's options. A step that
\* changes the endpoint-wide options leaves the timeout and retries every
\* existing draft's GET / POST read as they were; a step that changes one
\* draft's options leaves the endpoint-wide options and every other draft's
\* as they were; a new draft starts with the endpoint's options of that moment.
C8_DraftOwnsItsOptions ==
  [][/\ \A r \in 1..Len(reqs) :
          heap'[1] # heap[1]
            => (OptTimeout(r)' = OptTimeout(r) /\ OptRetries(r)' = OptRetries(r))
     /\ \A r \in 1..Len(reqs) :
          (OptTimeout(r)' # OptTimeout(r) \/ OptRetries(r)' # OptRetries(r))
            => /\ heap'[1] = heap[1]
               /\ \A q \in (1..Len(reqs)) \ {r} :
                    OptTimeout(q)' = OptTimeout(q) /\ OptRetries(q)' = OptRetries(q)
     /\ Len(reqs') > Len(reqs)
          => /\ heap'[reqs'[Len(reqs')].Options] = heap[1]
             /\ heap'[1] = heap[1]]_vars

\* the endpoint-wide options and two drafts' options were set apart after the
\* drafts were made
C8_Witness ==
  /\ Len(reqs) = 2
  /\ heap[1].timeout # OptTimeout(1)
  /\ heap[1].retries # OptRetries(1)
  /\ OptTimeout(1) # OptTimeout(2)
  /\ OptRetries(2) # heap[1].retries

\* the raw query of what was rendered last
RenderedQuery ==
  IF sent.op = "RawQueryURL"
  THEN (IF IndexOf(sent.result.url, "?") = 0 THEN <<>>
        ELSE SubSeq(sent.result.url, IndexOf(sent.result.url, "?") + 1,
                    Len(sent.result.url)))
  ELSE sent.result.req.RawQuery

\* a draft was rendered without error
Rendered == sent.op # "none" /\ sent.result.err = Nil

\* the values of the pairs of key k, in their order
RECURSIVE ValuesOf(_, _)
ValuesOf(pairs, k) ==
  IF pairs = <<>> THEN <<>>
  ELSE (IF Head(pairs).key = k THEN <<Head(pairs).value>> ELSE <<>>)
         \o ValuesOf(Tail(pairs), k)

\* the pairs added to the rendered draft, as texts, in insertion order
AddedPairs == Serialized(reqs[sent.r].queries)

\* C9 as stated: the rendered query string (of RawQueryURL and of the executed
\* request) lists exactly the added pairs, each as often as it was added, in
\* insertion order.
C9_QueryInInsertionOrder ==
  (Rendered /\ epURL.rawQuery = <<>>) => QueryPairs(RenderedQuery) = AddedPairs

\* C9 amended: the rendered query string holds the pairs of the endpoint URL's
\* own query and each added pair exactly as often as it was added; the pairs
\* are listed by ascending key, and the pairs of one key in insertion order
\* (the URL's own first).
C9_QuerySortedByKey ==
  Rendered
  => LET out == QueryPairs(RenderedQuery)
         all == QueryPairs(epURL.rawQuery) \o AddedPairs
     IN /\ Len(out) = Len(all)
        /\ \A i \in 1..Len(out) : \A j \in (i + 1)..Len(out) :
             ~StrLess(out[j].key, out[i].key)
        /\ \A p \in Range(all) \cup Range(out) :
             ValuesOf(out, p.key) = ValuesOf(all, p.key)
        /\ sent.op = "RawQueryURL"
             => sent.result.url = URLString(EndpointPath, RenderedQuery)

\* RawQueryURL rendered a draft given b, then the same pair of key a twice, on
\* an endpoint URL with a query of its own
C9_Witness ==
  /\ Rendered
  /\ sent.op = "RawQueryURL"
  /\ epURL.rawQuery # <<>>
  /\ Len(reqs[sent.r].queries) = 3
  /\ reqs[sent.r].queries[1].key = <<"b">>
  /\ reqs[sent.r].queries[2].key = <<"a">>
  /\ reqs[sent.r].queries[2].value.is = vdtInt
  /\ reqs[sent.r].queries[3] = reqs[sent.r].queries[2]

\* the AddHeader calls on the rendered draft that name header field K
CallsNaming(K) ==
  {i \in 1..Len(reqs[sent.r].headers) :
     CanonicalMIMEHeaderKey(reqs[sent.r].headers[i].key) = K}

\* C10: the request built for execution carries exactly the header fields
\* named by some AddHeader call, each with exactly one value: the value of the
\* last AddHeader call naming that field (a field name is the key in its
\* canonical MIME form, as Header.Set stores it).
C10_HeaderLastWriteWins ==
  (Rendered /\ sent.op = "callAPI")
  => LET H == sent.result.req.Header
         hdrs == reqs[sent.r].headers
     IN /\ DOMAIN H = {CanonicalMIMEHeaderKey(hdrs[i].key) : i \in 1..Len(hdrs)}
        /\ \A K \in DOMAIN H :
             LET last == CHOOSE i \in CallsNaming(K) : \A j \in CallsNaming(K) : j <= i
             IN H[K] = <<hdrs[last].value.s>>

\* the request was built from a draft given the same field twice, with
\* different values, and another field in between
C10_Witness ==
  /\ Rendered
  /\ sent.op = "callAPI"
  /\ Len(reqs[sent.r].headers) = 3
  /\ reqs[sent.r].headers[1].key = <<"x", "-", "a">>
  /\ reqs[sent.r].headers[2].key = ContentType
  /\ reqs[sent.r].headers[3].key = <<"x", "-", "a">>
  /\ reqs[sent.r].headers[1].value # reqs[sent.r].headers[3].value

\* the goroutines that have not ended
Alive == {t \in 1..Len(tasks) : tasks[t].st # "done"}

\* the attempts that returned on the deadline
TimedOutAttempts == {i \in 1..Len(attempts) : attempts[i].out = Outcome(Nil, ErrTimeout)}

\* the attempt in progress, if it waits in the select
Awaited == IF pc = "select" THEN {Len(tasks)} ELSE {}

BlockedForever(t) == t \in TimedOutAttempts /\ tasks[t].st = "sending"

\* C12: a goroutine whose attempt returned on the deadline still runs to its
\* end: while it has not ended it has a step to take (its callAPI returning,
\* then its result dropped), so it is never left in the send of line 199 with
\* nobody to receive.
C12_AbandonedTaskEnds ==
  \A t \in TimedOutAttempts :
    tasks[t].st # "done" => (ENABLED TaskCallReturns(t) /\ ~BlockedForever(t))

\* a POST returned on the deadline and its goroutine's callAPI returned later
C12_Witness ==
  /\ method = "POST"
  /\ pc = "done"
  /\ ret = Outcome(Nil, ErrTimeout)
  /\ BlockedForever(1)

\* the calls of callAPIWithTimeout made so far, and those that returned
Calls == {i \in 1..Len(events) : events[i].ev = "call"}
Returns == {i \in 1..Len(events) : events[i].ev = "return"}

\* C13: the attempts of a call are strictly sequential: an attempt other than
\* the first is called only after the attempt before it returned its outcome
\* to the caller and at least RetryDelay ms went by since, every return is
\* that of the attempt called last, and the caller has at most one attempt
\* called and not yet returned, the one it waits for in the select.
C13_RetriesAreSequential ==
  /\ \A i \in Calls :
       \/ i = 1
       \/ /\ i - 1 \in Returns
          /\ events[i].at >= events[i - 1].at + RetryDelay
  /\ \A i \in Returns : i - 1 \in Calls
  /\ Cardinality(Returns) = Len(attempts)
  /\ Cardinality(Calls) - Cardinality(Returns) = Cardinality(Awaited)
  /\ Cardinality(Calls) - Cardinality(Returns) <= 1

\* a GET returned after retries + 1 attempts of which one at least ran into
\* its deadline
C13_Witness ==
  /\ method = "GET"
  /\ pc = "done"
  /\ Len(attempts) = MaxRetries + 1
  /\ Cardinality(Calls) = MaxRetries + 1
  /\ TimedOutAttempts # {}
  /\ events[Len(events)].at > MaxRetries * RetryDelay

\* a step of the caller inside GET / POST
CallerStep == CallSync \/ CallSpawn \/ SelectReceive \/ SelectDeadline \/ Sleep

\* C14: a GET calls callAPIWithTimeout at most retries + 1 times and then
\* returns (until it has returned, the caller has a step to take); with
\* retries = 0 it returns after exactly one attempt, and when every attempt
\* failed in the transport it returns after exactly retries + 1 attempts.
C14_AttemptsBounded ==
  method = "GET"
  => /\ Cardinality(Calls) <= OptRetries(cur) + 1
     /\ Len(attempts) <= OptRetries(cur) + 1
     /\ pc # "done" => ENABLED CallerStep
     /\ (pc = "done" /\ OptRetries(cur) = 0) => Len(attempts) = 1
     /\ (pc = "done" /\ \A i \in 1..Len(attempts) : TransportFailed(i))
          => Len(attempts) = OptRetries(cur) + 1

\* a GET returned after retries + 1 attempts that all failed in the transport
C14_Witness ==
  /\ method = "GET"
  /\ pc = "done"
  /\ OptRetries(cur) = MaxRetries
  /\ Len(attempts) = MaxRetries + 1
  /\ \A i \in 1..Len(attempts) : TransportFailed(i)
  /\ ret.r = Nil

\* C15: with timeout <= 0 an attempt runs on the caller: no goroutine is
\* started and the caller never waits in the select, no attempt ends in
\* ErrTimeout, and the attempt returns just what callAPI returned for what the
\* transport did: the same Response and the same error, with no PackageError
\* put around it by callAPIWithTimeout.
C15_NoTimeoutRunsOnCaller ==
  (cur # 0 /\ OptTimeout(cur) <= 0)
  => /\ tasks = <<>>
     /\ pc # "select"
     /\ \A i \in 1..Len(attempts) :
          /\ attempts[i].out.e # ErrTimeout
          /\ attempts[i].out = callAPI(cur, attempts[i].method, attempts[i].rt)
          /\ attempts[i].out.e.kind = "PackageError" => attempts[i].out.e.err.kind = "fmtError"
          /\ CompletedWith(i, StatusOK) => attempts[i].out = Outcome(ResponseOf(i), Nil)
          /\ (attempts[i].rt.kind = "completed" /\ ~CompletedWith(i, StatusOK))
               => attempts[i].out = Outcome(ResponseOf(i), newQueryError(ResponseOf(i), cur))

\* with timeout = 0 a GET met a transport failure, then a 404, and returned
C15_Witness ==
  /\ method = "GET"
  /\ pc = "done"
  /\ OptTimeout(cur) = 0
  /\ Len(attempts) >= 2
  /\ TransportFailed(1)
  /\ CompletedWith(2, 404)
  /\ attempts[2].out.e.kind = "QueryError"

\* the error e holds once the PackageErrors of lines 211 and 222-235 are taken off
Unwrapped(e) ==
  IF e.kind # "PackageError" THEN e
  ELSE IF e.err.kind # "PackageError" THEN e.err
  ELSE e.err.err

\* e is the API error of the non-OK Response rv, as it is or held by a PackageError
IsAPIErrorOf(e, rv) ==
  /\ Unwrapped(e).kind = "QueryError"
  /\ Unwrapped(e).status = rv.Status
  /\ rv.Status # StatusOK

\* e reports a failure to make or carry out the round trip, or the deadline
IsTransportOrTimeout(e) ==
  e = ErrTimeout \/ (e.kind = "PackageError" /\ Unwrapped(e).kind = "fmtError")

\* C16: what GET or POST returns has exactly one meaningful branch: a Response
\* with no error or with the API error of its non-200 status, or no Response
\* and a transport or timeout error; it is never without both Response and
\* error and never pairs a Response with an error that is not an API error.
C16_OneMeaningfulBranch ==
  pc = "done"
  => \/ ret.r # Nil /\ (ret.e = Nil \/ IsAPIErrorOf(ret.e, ret.r))
     \/ ret.r = Nil /\ IsTransportOrTimeout(ret.e)

\* a POST under a timeout returned a 200 Response paired with a PackageError
\* that holds no error
C16_Witness ==
  /\ method = "POST"
  /\ pc = "done"
  /\ ret.r # Nil
  /\ ret.r.Status = StatusOK
  /\ ret.e = PackageError(Nil)

\* text is the form encoding of pairs: it holds each pair as often as pairs
\* does, by ascending key, the pairs of one key in their order
IsFormEncoding(text, pairs) ==
  LET out == QueryPairs(text)
  IN /\ Len(out) = Len(pairs)
     /\ \A i \in 1..Len(out) : \A j \in (i + 1)..Len(out) : ~StrLess(out[j].key, out[i].key)
     /\ \A p \in Range(pairs) \cup Range(out) : ValuesOf(out, p.key) = ValuesOf(pairs, p.key)

\* C17: the body of the request built for execution: bodyTXT when hasBody
\* holds and bodyTXT is not empty, whether or not bodyKV holds pairs and in
\* whichever order SetBodyJSON and AddBodyKV were called; the form encoding
\* of bodyKV when hasBody holds and bodyTXT is empty; no body when hasBody
\* does not hold.
C17_BodySelected ==
  (Rendered /\ sent.op = "callAPI")
  => LET req == reqs[sent.r]
         body == sent.result.req.Body
     IN /\ (req.hasBody /\ Len(req.bodyTXT) > 0) => body = Reader(req.bodyTXT)
        /\ (req.hasBody /\ Len(req.bodyTXT) = 0)
             => /\ body.kind = "strings.Reader"
                /\ IsFormEncoding(body.text, Serialized(req.bodyKV))
        /\ ~req.hasBody => body = NoBody

\* a request was built of a draft given a JSON body first and a body pair after
C17_Witness ==
  /\ Rendered
  /\ sent.op = "callAPI"
  /\ returned.op = "AddBodyKV"
  /\ Len(reqs[sent.r].bodyKV) = 1
  /\ Len(reqs[sent.r].bodyTXT) > 0
  /\ sent.result.req.Body = Reader(reqs[sent.r].bodyTXT)

\* this step is a call of SetBodyJSON with a value json.Marshal rejects
FailedSetBodyJSON ==
  /\ nCalls' = nCalls + 1
  /\ returned'.op = "SetBodyJSON"
  /\ jsonMarshal(returned'.arg).err # Nil

\* the body fields of the drafts
BodyFields == [r \in 1..Len(reqs) |-> <<reqs[r].bodyTXT, reqs[r].bodyKV, reqs[r].hasBody>>]

\* C18: a call of SetBodyJSON with a value that cannot be serialized hands
\* its caller an explicit SerializationError value, not an absent result, and
\* leaves bodyTXT, bodyKV and hasBody of the draft as they were.
C18_FailureIsSurfaced ==
  [][FailedSetBodyJSON
       => /\ returned'.value # Nil
          /\ returned'.value.kind = "SerializationError"
          /\ BodyFields' = BodyFields]_vars

\* SetBodyJSON was called with a channel on a draft that had a body pair, and
\* returned nil
C18_Witness ==
  /\ returned.op = "SetBodyJSON"
  /\ returned.arg.type = "chan"
  /\ returned.value = Nil
  /\ Len(reqs[1].bodyKV) = 1

\* C19: after any builder calls on a draft, failed SetBodyJSON calls included,
\* hasBody holds exactly when bodyTXT is not empty or bodyKV holds a pair, so
\* genHTTPReq with hasBody never comes to hand http.NewRequest the reader it
\* assigned no body to.
C19_HasBodyIffContent ==
  /\ \A r \in 1..Len(reqs) :
       /\ reqs[r].hasBody <=> (Len(reqs[r].bodyTXT) > 0 \/ Len(reqs[r].bodyKV) > 0)
       /\ BodyOf(reqs[r]) # NilReader
  /\ sent.op = "callAPI" => sent.result.err.kind # "panic"

\* a request was built of a draft whose only builder call was a SetBodyJSON
\* that failed: it has no body
C19_Witness ==
  /\ Rendered
  /\ sent.op = "callAPI"
  /\ nCalls = 1
  /\ returned.op = "SetBodyJSON"
  /\ returned.value = Nil
  /\ ~reqs[sent.r].hasBody
  /\ sent.result.req.Body = NoBody

\* the requests callAPI has made of the draft so far, on the caller and in
\* the goroutines
Made ==
  {attempts[i].httpReq : i \in {j \in 1..Len(attempts) : attempts[j].httpReq # Unknown}}
    \cup {tasks[t].httpReq : t \in {u \in 1..Len(tasks) : tasks[u].httpReq # Unknown}}

\* C20: no step of GET, POST or RawQueryURL, a goroutine's included, changes
\* the draft (queries, headers, bodyKV, bodyTXT, hasBody) or its options, so
\* every attempt, one still running after its deadline included, makes the
\* same request: the one the draft stood for when the call began, with its
\* URL, headers and body; and RawQueryURL renders the URL of that same draft.
C20_CallsLeaveDraft ==
  [][/\ reqs' = reqs
     /\ heap' = heap
     /\ \A h \in Made' : h = HTTPRequestOf(BuiltDraft, method')
     /\ Cardinality(Made') <= 1
     /\ sent'.op = "RawQueryURL" => sent'.result = RawQueryURLResult(BuiltDraft)]_vars

\* a GET returned after two timed-out attempts, both goroutines have made
\* their request of the draft, and the caller has asked for the URL since
C20_Witness ==
  /\ method = "GET"
  /\ pc = "done"
  /\ TimedOutAttempts = {1, 2}
  /\ tasks[1].httpReq # Unknown
  /\ tasks[2].httpReq # Unknown
  /\ Len(QueryPairs(tasks[2].httpReq.req.RawQuery)) = 3
  /\ tasks[2].httpReq.req.Body = Reader(<<"{", "}">>)
  /\ DOMAIN tasks[2].httpReq.req.Header = {<<"X", "-", "A">>}
  /\ sent.op = "RawQueryURL"
====
